---- MODULE Spec2Model ----
(***************************************************************************)
(* A model of the quiz generator of src/utils.py: the response cleaner     *)
(* (clean_json_response), the structural validator                         *)
(* (validate_json_structure), the normalizer (post_process_quiz_data) and  *)
(* the retry loop (call_gemini_api).                                       *)
(*                                                                         *)
(* Python values are tagged records [t, v]: t is the Python type, v the    *)
(* content. A str is a sequence of one-character strings, a list a         *)
(* sequence of values, a dict a function from keys (strs) to values.       *)
(***************************************************************************)
EXTENDS Integers, Sequences, FiniteSets, TLC

VARIABLES
    cand,         \* SpecDoc: the parsed candidate as it was handed in
    doc,          \* SpecDoc: the candidate object, as the code has left it
    stage,        \* SpecDoc: "parsed", "rejected", "validated", "normalized", "renormalized",
                  \*   "formatted", "exported", "export failed"
    once,         \* SpecDoc: the document returned by the first normalization
    raw_text,     \* SpecClean: the argument of clean_json_response
    cleaned_text, \* SpecClean: what clean_json_response returned, None before the call
    text_input,   \* Spec: argument of call_gemini_api
    api_key,      \* Spec: argument of call_gemini_api
    max_retries,  \* Spec: argument of call_gemini_api
    pc,           \* Spec: "start", "attempt" (at the top of the loop body), "returned"
    attempt,      \* Spec: the loop variable of line 188
    calls,        \* Spec: one record for each generate_content call, in order:
                  \*   slept, the time.sleep just before it (0 for none);
                  \*   raised, whether it raised; text, the response text or str(e)
    result        \* Spec: the returned pair [quiz_json, error], both None before the return

docVars == <<cand, doc, stage, once>>
cleanVars == <<raw_text, cleaned_text>>
callVars == <<text_input, api_key, max_retries, pc, attempt, calls, result>>
vars == <<cand, doc, stage, once, raw_text, cleaned_text,
          text_input, api_key, max_retries, pc, attempt, calls, result>>

----------------------------------------------------------------------------
(* Python values *)

None == [t |-> "none", v |-> <<>>]
Str(s) == [t |-> "str", v |-> s]
Num(n) == [t |-> "num", v |-> n]
List(s) == [t |-> "list", v |-> s]
Dict(f) == [t |-> "dict", v |-> f]

IsStr(x) == x.t = "str"
IsList(x) == x.t = "list"
IsDict(x) == x.t = "dict"

\* Python truth value of x is False (`not x`)
Falsy(x) ==
    CASE x.t = "none" -> TRUE
      [] x.t = "str" -> x.v = <<>>
      [] x.t = "num" -> x.v = 0
      [] x.t = "list" -> x.v = <<>>
      [] x.t = "dict" -> DOMAIN x.v = {}

\* the elements of a sequence
Range(s) == { s[i] : i \in DOMAIN s }

\* `x in lst` for a Python list lst (a sequence of values), by value
In(x, lst) == \E i \in 1..Len(lst) : lst[i] = x

\* `k in d` for a dict d (a function)
HasKey(d, k) == k \in DOMAIN d

\* d[k] = x
SetKey(d, k, x) == [y \in DOMAIN d \cup {k} |-> IF y = k THEN x ELSE d[y]]

\* d without key k
DelKey(d, k) == [y \in DOMAIN d \ {k} |-> d[y]]

----------------------------------------------------------------------------
(* str methods *)

Whitespace == {" ", "\n", "\t", "\r", "\f"}

LowerChar(c) ==
    CASE c = "A" -> "a" [] c = "B" -> "b" [] c = "C" -> "c" [] c = "D" -> "d"
      [] c = "E" -> "e" [] c = "F" -> "f" [] c = "G" -> "g" [] c = "H" -> "h"
      [] c = "I" -> "i" [] c = "J" -> "j" [] c = "K" -> "k" [] c = "L" -> "l"
      [] c = "M" -> "m" [] c = "N" -> "n" [] c = "O" -> "o" [] c = "P" -> "p"
      [] c = "Q" -> "q" [] c = "R" -> "r" [] c = "S" -> "s" [] c = "T" -> "t"
      [] c = "U" -> "u" [] c = "V" -> "v" [] c = "W" -> "w" [] c = "X" -> "x"
      [] c = "Y" -> "y" [] c = "Z" -> "z" [] OTHER -> c

lower(s) == [i \in 1..Len(s) |-> LowerChar(s[i])]

\* the least and the greatest element of a set of positions, 0 when it is empty
FirstIn(S) == IF S = {} THEN 0 ELSE CHOOSE i \in S : \A j \in S : i <= j
LastIn(S) == IF S = {} THEN 0 ELSE CHOOSE i \in S : \A j \in S : j <= i

\* the positions of s that hold no whitespace
Inked(s) == { i \in 1..Len(s) : s[i] \notin Whitespace }

strip(s) == IF Inked(s) = {} THEN <<>> ELSE SubSeq(s, FirstIn(Inked(s)), LastIn(Inked(s)))

Digits == <<"0", "1", "2", "3", "4", "5", "6", "7", "8", "9">>

\* str(n) for a natural number n
RECURSIVE Decimal(_)
Decimal(n) ==
    IF n < 10 THEN <<Digits[n + 1]>> ELSE Decimal(n \div 10) \o <<Digits[(n % 10) + 1]>>

----------------------------------------------------------------------------
(* The keys of the quiz schema and the literals of the normalizer *)

K_subject == <<"s","u","b","j","e","c","t">>
K_chapters == <<"c","h","a","p","t","e","r","s">>
K_chapterName == <<"c","h","a","p","t","e","r","N","a","m","e">>
K_quizQuestions == <<"q","u","i","z","Q","u","e","s","t","i","o","n","s">>
K_question == <<"q","u","e","s","t","i","o","n">>
K_options == <<"o","p","t","i","o","n","s">>
K_correctAnswer == <<"c","o","r","r","e","c","t","A","n","s","w","e","r">>
K_explanation == <<"e","x","p","l","a","n","a","t","i","o","n">>

required_keys == {K_subject, K_chapters}
required_q_keys == {K_question, K_options, K_correctAnswer, K_explanation}

DefaultSubject == Str(<<"G","e","n","e","r","a","t","e","d"," ","Q","u","i","z">>)
DefaultChapterName == Str(<<"C","h","a","p","t","e","r"," ","1">>)
DefaultQuestion(i) == Str(<<"Q","u","e","s","t","i","o","n"," ">> \o Decimal(i))
DefaultOptions ==
    List(<< Str(<<"O","p","t","i","o","n"," ","A">>), Str(<<"O","p","t","i","o","n"," ","B">>),
            Str(<<"O","p","t","i","o","n"," ","C">>), Str(<<"O","p","t","i","o","n"," ","D">>) >>)
PadOption(n) == Str(<<"O","p","t","i","o","n"," ">> \o Decimal(n))
DefaultExplanation ==
    Str(<<"N","o"," ","e","x","p","l","a","n","a","t","i","o","n"," ",
          "p","r","o","v","i","d","e","d",".">>)

----------------------------------------------------------------------------
(* validate_json_structure *)

\* QuestionPasses with the length check off by one (`< 1` for `< 2`)
QuestionPassesOffByOne(question) ==
    /\ IsDict(question)
    /\ \A key \in required_q_keys : HasKey(question.v, key)
    /\ IsList(question.v[K_options])
    /\ ~(Len(question.v[K_options].v) < 1)

\* the checks of one question, lines 80-88; the membership test of
\* lines 91-92 only logs
QuestionPasses(question) ==
    /\ IsDict(question)
    /\ \A key \in required_q_keys : HasKey(question.v, key)
    /\ IsList(question.v[K_options])
    /\ ~(Len(question.v[K_options].v) < 2)

\* the checks of one chapter, lines 70-88
ChapterPasses(chapter) ==
    /\ IsDict(chapter)
    /\ HasKey(chapter.v, K_chapterName) /\ HasKey(chapter.v, K_quizQuestions)
    /\ IsList(chapter.v[K_quizQuestions])
    /\ \A i \in 1..Len(chapter.v[K_quizQuestions].v) :
          QuestionPasses(chapter.v[K_quizQuestions].v[i])

validate_json_structure(data) ==
    /\ IsDict(data)
    /\ \A key \in required_keys : HasKey(data.v, key)
    /\ IsList(data.v[K_chapters])
    /\ ~(Len(data.v[K_chapters].v) = 0)
    /\ \A i \in 1..Len(data.v[K_chapters].v) : ChapterPasses(data.v[K_chapters].v[i])

----------------------------------------------------------------------------
(* post_process_quiz_data *)

\* A value a `for` loop can iterate
Iterable(x) == x.t \in {"str", "list", "dict"}

\* `while len(question['options']) < 2: append(f"Option {len + 1}")`
RECURSIVE PadOptions(_)
PadOptions(options) ==
    IF Len(options) < 2
    THEN PadOptions(Append(options, PadOption(Len(options) + 1)))
    ELSE options

\* The duplicate-removal loop over the options still to be visited.
\* option.strip() raises AttributeError at an option that is no str.
RECURSIVE UniqueOptions(_, _, _)
UniqueOptions(options, unique_options, seen) ==
    IF options = <<>>
    THEN [raised |-> FALSE, unique_options |-> unique_options]
    ELSE LET option == Head(options)
         IN  IF ~IsStr(option)
             THEN [raised |-> TRUE, unique_options |-> unique_options]
             ELSE IF lower(strip(option.v)) \notin seen
                  THEN UniqueOptions(Tail(options), Append(unique_options, option),
                                     seen \cup {lower(strip(option.v))})
                  ELSE UniqueOptions(Tail(options), unique_options, seen)

\* RestoreAnswer with the restoring assignment left out
RestoreAnswerOmitted(unique_options, correctAnswer) == unique_options

\* `if correctAnswer not in unique_options: unique_options[0] = correctAnswer`
RestoreAnswer(unique_options, correctAnswer) ==
    IF ~In(correctAnswer, unique_options)
    THEN [unique_options EXCEPT ![1] = correctAnswer]
    ELSE unique_options

\* `if 'question' not in question or not question['question']: ...`
FixText(q, i) ==
    IF ~HasKey(q, K_question) \/ Falsy(q[K_question])
    THEN SetKey(q, K_question, DefaultQuestion(i + 1))
    ELSE q

\* `if 'options' not in question or not isinstance(question['options'], list): ...`
FixOptions(q) ==
    IF ~HasKey(q, K_options) \/ ~IsList(q[K_options])
    THEN SetKey(q, K_options, DefaultOptions)
    ELSE q

\* the padding loop, which appends to the list in place
FixLength(q) == SetKey(q, K_options, List(PadOptions(q[K_options].v)))

\* `if 'correctAnswer' not in question or correctAnswer not in options: ...`
FixAnswer(q) ==
    IF ~HasKey(q, K_correctAnswer) \/ ~In(q[K_correctAnswer], q[K_options].v)
    THEN SetKey(q, K_correctAnswer, q[K_options].v[1])
    ELSE q

\* `if 'explanation' not in question or not question['explanation']: ...`
FixExplanation(q) ==
    IF ~HasKey(q, K_explanation) \/ Falsy(q[K_explanation])
    THEN SetKey(q, K_explanation, DefaultExplanation)
    ELSE q

\* Duplicate removal, restoring the answer, `question['options'] = unique_options`.
\* When the loop raises, the question keeps the options it had.
Deduplicate(q) ==
    LET u == UniqueOptions(q[K_options].v, <<>>, {})
    IN  IF u.raised
        THEN [raised |-> TRUE, q |-> Dict(q)]
        ELSE [raised |-> FALSE,
              q |-> Dict(SetKey(q, K_options,
                         List(RestoreAnswer(u.unique_options, q[K_correctAnswer]))))]

\* The body of the question loop for the question at enumerate index i:
\* the question as the body leaves it, and whether the body raised.
ProcessQuestion(question, i) ==
    IF ~IsDict(question)
    THEN [raised |-> TRUE, q |-> question]
    ELSE Deduplicate(FixExplanation(FixAnswer(FixLength(FixOptions(FixText(question.v, i))))))

\* The question loop from enumerate index i on: the list as the loop
\* leaves it, and whether the loop raised.
RECURSIVE ProcessQuestions(_, _)
ProcessQuestions(questions, i) ==
    IF i >= Len(questions)
    THEN [raised |-> FALSE, qs |-> questions]
    ELSE LET r == ProcessQuestion(questions[i + 1], i)
         IN  IF r.raised
             THEN [raised |-> TRUE, qs |-> [questions EXCEPT ![i + 1] = r.q]]
             ELSE ProcessQuestions([questions EXCEPT ![i + 1] = r.q], i + 1)

\* `if 'chapterName' not in chapter or not chapter['chapterName']: ...`
FixChapterName(c) ==
    IF ~HasKey(c, K_chapterName) \/ Falsy(c[K_chapterName])
    THEN SetKey(c, K_chapterName, DefaultChapterName)
    ELSE c

\* `for i, question in enumerate(chapter.get('quizQuestions', [])): ...`
\* A value that is no list raises when it is iterated, or at its first
\* element (a character, a key); an empty str or dict is iterated in vain.
LoopQuestions(c) ==
    IF ~HasKey(c, K_quizQuestions)
    THEN [raised |-> FALSE, c |-> Dict(c)]
    ELSE IF ~IsList(c[K_quizQuestions])
         THEN [raised |-> ~(Iterable(c[K_quizQuestions]) /\ Falsy(c[K_quizQuestions])),
               c |-> Dict(c)]
         ELSE LET r == ProcessQuestions(c[K_quizQuestions].v, 0)
              IN  [raised |-> r.raised,
                   c |-> Dict(SetKey(c, K_quizQuestions, List(r.qs)))]

\* The body of the chapter loop
ProcessChapter(chapter) ==
    IF ~IsDict(chapter)
    THEN [raised |-> TRUE, c |-> chapter]
    ELSE LoopQuestions(FixChapterName(chapter.v))

\* The chapter loop from position i on
RECURSIVE ProcessChapters(_, _)
ProcessChapters(chapters, i) ==
    IF i > Len(chapters)
    THEN chapters
    ELSE LET r == ProcessChapter(chapters[i])
         IN  IF r.raised
             THEN [chapters EXCEPT ![i] = r.c]
             ELSE ProcessChapters([chapters EXCEPT ![i] = r.c], i + 1)

\* `if 'subject' not in quiz_json or not quiz_json['subject']: ...`
FixSubject(d) ==
    IF ~HasKey(d, K_subject) \/ Falsy(d[K_subject])
    THEN SetKey(d, K_subject, DefaultSubject)
    ELSE d

\* `for chapter in quiz_json.get('chapters', []): ...`
LoopChapters(d) ==
    IF ~HasKey(d, K_chapters) \/ ~IsList(d[K_chapters])
    THEN Dict(d)
    ELSE Dict(SetKey(d, K_chapters, List(ProcessChapters(d[K_chapters].v, 1))))

\* The document object as post_process_quiz_data leaves and returns it. An
\* exception ends the processing where it is raised; what was assigned
\* before stays assigned (the except clause returns the same object).
post_process_quiz_data(quiz_json) ==
    IF ~IsDict(quiz_json) THEN quiz_json ELSE LoopChapters(FixSubject(quiz_json.v))

----------------------------------------------------------------------------
(* convert_to_csv, for a document the validator accepts: json_data is a
   dict, its chapters are a list of dicts that is not empty, their
   quizQuestions lists of dicts with an options list. The CSV text it
   returns is not modelled. *)

\* `while len(options) < 4: options.append('')`, on the list of the question
RECURSIVE PadForCsv(_)
PadForCsv(options) ==
    IF Len(options) < 4 THEN PadForCsv(Append(options, Str(<<>>))) ELSE options

\* the question as the loop body of lines 341-362 leaves it
ExportQuestion(question) ==
    Dict(SetKey(question.v, K_options, List(PadForCsv(question.v[K_options].v))))

\* the chapter as the loop of lines 339-365 leaves it
ExportChapter(chapter) ==
    Dict(SetKey(chapter.v, K_quizQuestions,
                List([i \in 1..Len(chapter.v[K_quizQuestions].v) |->
                         ExportQuestion(chapter.v[K_quizQuestions].v[i])])))

\* The document object as convert_to_csv leaves it, and whether it raised:
\* QuizGeneratorError when no question was written (lines 367-368, 373-375)
convert_to_csv(json_data) ==
    [ raised |-> \A i \in 1..Len(json_data.v[K_chapters].v) :
                    json_data.v[K_chapters].v[i].v[K_quizQuestions].v = <<>>,
      json_data |-> Dict(SetKey(json_data.v, K_chapters,
                                List([i \in 1..Len(json_data.v[K_chapters].v) |->
                                         ExportChapter(json_data.v[K_chapters].v[i])]))) ]

----------------------------------------------------------------------------
(* Text: a str content is a sequence of characters *)

\* t[i:] with i counted from 1
From(t, i) == SubSeq(t, i, Len(t))

\* t has p at position i
At(t, i, p) == i + Len(p) - 1 <= Len(t) /\ \A k \in 1..Len(p) : t[i + k - 1] = p[k]

\* t.find(ch) and t.rfind(ch) counted from 1; 0 when ch is not in t
find(t, ch) == FirstIn({ i \in 1..Len(t) : t[i] = ch })
rfind(t, ch) == LastIn({ i \in 1..Len(t) : t[i] = ch })

----------------------------------------------------------------------------
(* clean_json_response *)

\* SANY admits no grave accent in a string: "GRAVE" stands for that character
Grave == "GRAVE"

\* what the pattern of line 107 (a fence, (?:json)?, \n?) matches at
\* position i of t, where a fence is: the fence, an optional "json" in any
\* case, an optional newline
FenceMatchLen(t, i) ==
    IF i + 6 <= Len(t) /\ lower(SubSeq(t, i + 3, i + 6)) = <<"j", "s", "o", "n">>
    THEN (IF i + 7 <= Len(t) /\ t[i + 7] = "\n" THEN 8 ELSE 7)
    ELSE (IF i + 3 <= Len(t) /\ t[i + 3] = "\n" THEN 4 ELSE 3)

\* the first fence of t at or after position i, 0 for none
NextFence(t, i) == FirstIn({ k \in i..Len(t) : At(t, k, <<Grave, Grave, Grave>>) })

\* line 107: re.sub of the opening-fence pattern, flags=re.IGNORECASE, from
\* position i on, f the next fence
RECURSIVE RemoveOpeningFencesFrom(_, _)
RemoveOpeningFencesFrom(t, i) ==
    LET f == NextFence(t, i)
    IN  IF f = 0 THEN From(t, i)
        ELSE SubSeq(t, i, f - 1) \o RemoveOpeningFencesFrom(t, f + FenceMatchLen(t, f))

\* line 108: re.sub of the bare fence
RECURSIVE RemoveFencesFrom(_, _)
RemoveFencesFrom(t, i) ==
    LET f == NextFence(t, i)
    IN  IF f = 0 THEN From(t, i) ELSE SubSeq(t, i, f - 1) \o RemoveFencesFrom(t, f + 3)

\* Strategy 1 and 2: t[t.find(open):t.rfind(close) + 1] when both are in t.
\* The empty text stands for None: the caller treats the two alike.
Between(t, open, close) ==
    IF find(t, open) # 0 /\ find(t, close) # 0
    THEN SubSeq(t, find(t, open), rfind(t, close))
    ELSE <<>>

\* Strategy 3: re.sub(r'\s+', ' ', t)
RegexSpace == {" ", "\n", "\t", "\r", "\f"}
\* the positions that stay: every character but a space that follows a space
RunHeads(t) ==
    SelectSeq([i \in 1..Len(t) |-> i], LAMBDA i : t[i] \notin RegexSpace \/ i = 1 \/ t[i - 1] \notin RegexSpace)
CollapseSpace(t) ==
    [k \in 1..Len(RunHeads(t)) |->
        IF t[RunHeads(t)[k]] \in RegexSpace THEN " " ELSE t[RunHeads(t)[k]]]

\* Strategy 4: the characters below code 32 other than \n, \r, \t are dropped
DropControl(t) == SelectSeq(t, LAMBDA ch : ch \notin {"\f"})

\* the strategies in order
Strategy(n, t) ==
    CASE n = 1 -> Between(t, "{", "}")
      [] n = 2 -> Between(t, "[", "]")
      [] n = 3 -> CollapseSpace(t)
      [] OTHER -> DropControl(t)

\* `for strategy in strategies: ... if result and result.strip(): return result.strip()`
\* and the final `return text`
RECURSIVE TryStrategies(_, _)
TryStrategies(n, t) ==
    IF n > 4 THEN t
    ELSE IF strip(Strategy(n, t)) # <<>>
         THEN strip(Strategy(n, t))
         ELSE TryStrategies(n + 1, t)

clean_json_response(text) ==
    IF text = <<>> THEN <<>>
    ELSE TryStrategies(1, strip(RemoveFencesFrom(RemoveOpeningFencesFrom(text, 1), 1)))

----------------------------------------------------------------------------
(* json.loads, for the JSON texts of objects, arrays, strings, natural
   numbers and null *)

DigitChars == Range(Digits)
DigitValue(ch) == CHOOSE n \in 0..9 : Digits[n + 1] = ch

\* the characters an escape sequence stands for
Unescaped(ch) ==
    CASE ch = "n" -> "\n" [] ch = "t" -> "\t" [] ch = "r" -> "\r" [] ch = "f" -> "\f"
      [] OTHER -> ch

\* a parse result: the value and the position after it, or a failure
Parsed(val, pos) == [ok |-> TRUE, val |-> val, pos |-> pos]
Fail == [ok |-> FALSE, val |-> None, pos |-> 0]

RECURSIVE SkipSpace(_, _)
SkipSpace(t, i) == IF i <= Len(t) /\ t[i] \in {" ", "\t", "\n", "\r"} THEN SkipSpace(t, i + 1) ELSE i

\* the string literal whose content starts at i
RECURSIVE ScanString(_, _, _)
ScanString(t, i, acc) ==
    IF i > Len(t) THEN Fail
    ELSE IF t[i] = "\"" THEN Parsed(Str(acc), i + 1)
    ELSE IF t[i] = "\\"
         THEN (IF i + 1 <= Len(t) /\ t[i + 1] \in {"\"", "\\", "/", "n", "t", "r", "f"}
               THEN ScanString(t, i + 2, Append(acc, Unescaped(t[i + 1])))
               ELSE Fail)
    ELSE IF t[i] \in Whitespace \ {" "} THEN Fail
    ELSE ScanString(t, i + 1, Append(acc, t[i]))

RECURSIVE ScanDigits(_, _, _)
ScanDigits(t, i, n) ==
    IF i <= Len(t) /\ t[i] \in DigitChars
    THEN ScanDigits(t, i + 1, 10 * n + DigitValue(t[i]))
    ELSE Parsed(Num(n), i)

RECURSIVE ParseValue(_, _)
RECURSIVE ArrayItems(_, _, _)
RECURSIVE ObjectMembers(_, _, _)

\* after an array element: a comma and the next element, or the closing bracket
ArrayDelimiter(t, j, acc) ==
    IF j > Len(t) THEN Fail
    ELSE IF t[j] = "," THEN ArrayItems(t, SkipSpace(t, j + 1), acc)
    ELSE IF t[j] = "]" THEN Parsed(List(acc), j + 1)
    ELSE Fail

ArrayItems(t, i, acc) ==
    LET r == ParseValue(t, i)
    IN  IF ~r.ok THEN Fail ELSE ArrayDelimiter(t, SkipSpace(t, r.pos), Append(acc, r.val))

ParseArray(t, i) ==
    IF i <= Len(t) /\ t[i] = "]" THEN Parsed(List(<<>>), i + 1) ELSE ArrayItems(t, i, <<>>)

\* after an object member: a comma and the next member, or the closing brace
ObjectDelimiter(t, j, acc) ==
    IF j > Len(t) THEN Fail
    ELSE IF t[j] = "," THEN ObjectMembers(t, SkipSpace(t, j + 1), acc)
    ELSE IF t[j] = "}" THEN Parsed(Dict(acc), j + 1)
    ELSE Fail

ObjectColon(t, j, key, acc) ==
    IF j > Len(t) \/ t[j] # ":" THEN Fail
    ELSE LET r == ParseValue(t, SkipSpace(t, j + 1))
         IN  IF ~r.ok THEN Fail
             ELSE ObjectDelimiter(t, SkipSpace(t, r.pos), SetKey(acc, key, r.val))

ObjectMembers(t, i, acc) ==
    IF i > Len(t) \/ t[i] # "\"" THEN Fail
    ELSE LET k == ScanString(t, i + 1, <<>>)
         IN  IF ~k.ok THEN Fail ELSE ObjectColon(t, SkipSpace(t, k.pos), k.val.v, acc)

ParseObject(t, i) ==
    IF i <= Len(t) /\ t[i] = "}" THEN Parsed(Dict(<<>>), i + 1) ELSE ObjectMembers(t, i, <<>>)

ParseValue(t, i) ==
    IF i > Len(t) THEN Fail
    ELSE CASE t[i] = "\"" -> ScanString(t, i + 1, <<>>)
           [] t[i] = "{" -> ParseObject(t, SkipSpace(t, i + 1))
           [] t[i] = "[" -> ParseArray(t, SkipSpace(t, i + 1))
           [] t[i] = "0" -> Parsed(Num(0), i + 1)
           [] t[i] \in DigitChars -> ScanDigits(t, i, 0)
           [] At(t, i, <<"n", "u", "l", "l">>) -> Parsed(None, i + 4)
           [] OTHER -> Fail

\* json.loads(t): ok is FALSE where it raises JSONDecodeError; the value
\* must be followed by nothing but space ("Extra data" otherwise)
json_loads(t) ==
    LET r == ParseValue(t, SkipSpace(t, 1))
    IN  IF r.ok /\ SkipSpace(t, r.pos) = Len(t) + 1
        THEN [ok |-> TRUE, val |-> r.val]
        ELSE [ok |-> FALSE, val |-> None]

----------------------------------------------------------------------------
(* preprocess_latex *)

\* escape_latex, character by character
EscapedChar(ch) ==
    CASE ch = "\\" -> <<"\\", "\\">>
      [] ch = "\"" -> <<"\\", "\"">>
      [] ch = "\n" -> <<"\\", "n">>
      [] ch = "\r" -> <<"\\", "r">>
      [] ch = "\t" -> <<"\\", "t">>
      [] OTHER -> <<ch>>
RECURSIVE escape_latex(_)
escape_latex(latex) ==
    IF latex = <<>> THEN <<>>
    ELSE IF Len(latex) = 1 THEN EscapedChar(latex[1])
    ELSE escape_latex(SubSeq(latex, 1, Len(latex) \div 2))
            \o escape_latex(SubSeq(latex, (Len(latex) \div 2) + 1, Len(latex)))

\* Display math, \$\$(?:[^$]|\$(?!\$))*\$\$ : the body, from i on, ends at
\* the first "$$"
DisplayEnd(t, i) ==
    IF FirstIn({ k \in i..Len(t) : At(t, k, <<"$", "$">>) }) = 0 THEN 0
    ELSE FirstIn({ k \in i..Len(t) : At(t, k, <<"$", "$">>) }) + 1

\* Inline math, \$(?:[^$\n]|\\.)*\$ : the body, from i on, runs to the
\* first "$" or newline at s. A "$" closes the match. At a newline the
\* engine backtracks: only the backslash pair made of a backslash just
\* before the newline and the newline goes on, and the body continues
\* after it. (A pair taken earlier in the run meets the same newline.)
RECURSIVE InlineEnd(_, _)
InlineEnd(t, i) ==
    LET s == FirstIn({ k \in i..Len(t) : t[k] \in {"$", "\n"} })
    IN  IF s = 0 THEN 0
        ELSE IF t[s] = "$" THEN s
        ELSE IF s > i /\ t[s - 1] = "\\" THEN InlineEnd(t, s + 1)
        ELSE 0

\* the position of the "}" that closes a name [^}]+ starting at i; 0 when
\* there is none or the name is empty
NameEnd(t, i) ==
    IF i <= Len(t) /\ t[i] # "}" THEN FirstIn({ k \in i..Len(t) : t[k] = "}" }) ELSE 0

\* .*?\\end\{[^}]+\} : the first \end{name} at or after i
EnvironmentEnd(t, i) ==
    LET s == FirstIn({ k \in i..Len(t) :
                         At(t, k, <<"\\", "e", "n", "d", "{">>) /\ NameEnd(t, k + 5) # 0 })
    IN  IF s = 0 THEN 0 ELSE NameEnd(t, s + 5)

\* .*?\\right[)\]}|] : the first \right with a closing delimiter at or after i
DelimiterEnd(t, i) ==
    LET s == FirstIn({ k \in i..Len(t) :
                         /\ At(t, k, <<"\\", "r", "i", "g", "h", "t">>)
                         /\ k + 6 <= Len(t) /\ t[k + 6] \in {")", "]", "}", "|"} })
    IN  IF s = 0 THEN 0 ELSE s + 6

\* the last position of the match of pattern n that starts at i, 0 for no match
MatchEnd(n, t, i) ==
    CASE n = 1 -> IF At(t, i, <<"$", "$">>) THEN DisplayEnd(t, i + 2) ELSE 0
      [] n = 2 -> IF t[i] = "$" THEN InlineEnd(t, i + 1) ELSE 0
      [] n = 3 -> IF At(t, i, <<"\\", "b", "e", "g", "i", "n", "{">>) /\ NameEnd(t, i + 7) # 0
                  THEN EnvironmentEnd(t, NameEnd(t, i + 7) + 1)
                  ELSE 0
      [] OTHER -> IF /\ At(t, i, <<"\\", "l", "e", "f", "t">>)
                     /\ i + 5 <= Len(t) /\ t[i + 5] \in {"(", "[", "{", "|"}
                  THEN DelimiterEnd(t, i + 6)
                  ELSE 0

\* the first match of pattern n at or after position i, 0 for none
NextMatch(n, t, i) == FirstIn({ k \in i..Len(t) : MatchEnd(n, t, k) # 0 })

\* re.sub(pattern n, escape_latex, text, flags=re.DOTALL) from position i on
RECURSIVE SubPattern(_, _, _)
SubPattern(n, t, i) ==
    LET m == NextMatch(n, t, i)
    IN  IF m = 0 THEN From(t, i)
        ELSE SubSeq(t, i, m - 1) \o escape_latex(SubSeq(t, m, MatchEnd(n, t, m)))
                \o SubPattern(n, t, MatchEnd(n, t, m) + 1)

\* `for pattern in patterns: text = re.sub(...)`
RECURSIVE SubPatterns(_, _)
SubPatterns(n, t) == IF n > 4 THEN t ELSE SubPatterns(n + 1, SubPattern(n, t, 1))

preprocess_latex(text) == IF text = <<>> THEN text ELSE SubPatterns(1, text)

----------------------------------------------------------------------------
(* The parsed candidates the validator and the normalizer are run on *)

MaxOpts == 3

OptionVals ==
    { Str(s) : s \in { <<>>, <<" ">>, <<"A">>, <<"a">>, <<"a", " ">>, <<"B">> } } \cup { Num(1) }
OptionLists == UNION { [1..k -> OptionVals] : k \in 0..MaxOpts }

Question(text, options, correctAnswer, explanation) ==
    Dict([k \in required_q_keys |->
            CASE k = K_question -> text
              [] k = K_options -> options
              [] k = K_correctAnswer -> correctAnswer
              [] k = K_explanation -> explanation])

Chapter(chapterName, quizQuestions) ==
    Dict([k \in {K_chapterName, K_quizQuestions} |->
            IF k = K_chapterName THEN chapterName ELSE quizQuestions])

QuizDoc(subject, chapters) ==
    Dict([k \in required_keys |-> IF k = K_subject THEN subject ELSE chapters])


\* a one-letter text
Text(c) == Str(<<c>>)

GoodQuestion == Question(Text("Q"), List(<<Str(<<"A">>), Str(<<"B">>)>>), Str(<<"A">>), Text("E"))

\* questions that stand before or after a main question
ExtraQuestions ==
    { Question(Str(<<>>), List(<<Num(1), Num(1)>>), Num(1), Str(<<>>)),
      Question(Text("Q"), List(<<Str(<<"A">>), Str(<<"a">>)>>), Str(<<"B">>), None) }

\* values that are not of the type the validator asks for, or are blank
Misfits == { None, Num(0), Str(<<>>), Str(<<"x">>), List(<<>>), Dict(<<>>) }

QuestionVariants ==
    { Dict(DelKey(GoodQuestion.v, k)) : k \in required_q_keys }
    \cup { Dict(SetKey(GoodQuestion.v, k, m)) : k \in required_q_keys, m \in Misfits }
    \cup Misfits

ChapterVariants ==
    { Chapter(Text("C"), List(qs)) :
        qs \in { <<>> } \cup { <<q>> : q \in QuestionVariants }
                 \cup { <<GoodQuestion, q>> : q \in QuestionVariants } }
    \cup { Dict(DelKey(Chapter(Text("C"), List(<<GoodQuestion>>)).v, k)) :
             k \in {K_chapterName, K_quizQuestions} }
    \cup { Dict(SetKey(Chapter(Text("C"), List(<<GoodQuestion>>)).v, k, m)) :
             k \in {K_chapterName, K_quizQuestions}, m \in Misfits }
    \cup Misfits

GoodChapter == Chapter(Text("C"), List(<<GoodQuestion>>))

DocVariants ==
    { QuizDoc(Text("S"), List(cs)) :
        cs \in { <<>> } \cup { <<c>> : c \in ChapterVariants }
                 \cup { <<GoodChapter, c>> : c \in ChapterVariants }
                 \cup { <<c, GoodChapter>> : c \in ChapterVariants } }
    \cup { Dict(DelKey(QuizDoc(Text("S"), List(<<GoodChapter>>)).v, k)) : k \in required_keys }
    \cup { Dict(SetKey(QuizDoc(Text("S"), List(<<GoodChapter>>)).v, k, m)) :
             k \in required_keys, m \in Misfits }
    \cup Misfits
    \cup { List(<<QuizDoc(Text("S"), List(<<GoodChapter>>))>>) }

\* a main question q alone (n = 0), before (n = 1) or after (n = 2) an extra one
MainDoc(q, x, n) ==
    QuizDoc(Text("S"), List(<<Chapter(Text("C"),
        List(CASE n = 0 -> <<q>> [] n = 1 -> <<q, x>> [] OTHER -> <<x, q>>))>>))

----------------------------------------------------------------------------
(* The states of the parts a specification does not run *)

IdleDoc == cand = None /\ doc = None /\ stage = "idle" /\ once = None
IdleClean == raw_text = None /\ cleaned_text = None
IdleCall ==
    /\ text_input = None /\ api_key = None /\ max_retries = 0
    /\ pc = "idle" /\ attempt = 0 /\ calls = <<>>
    /\ result = [quiz_json |-> None, error |-> None]

----------------------------------------------------------------------------
(* SpecDoc: one parsed candidate goes through the validator and, when it
   is accepted, through the normalizer (call_gemini_api, lines 228-233);
   the returned document is normalized a second time, or formatted and
   exported (app.py, lines 75 and 86). *)

InitDoc ==
    /\ \/ \E o \in OptionLists, ca \in OptionVals, x \in ExtraQuestions, n \in 0..2 :
             cand = MainDoc(Question(Text("Q"), List(o), ca, Text("E")), x, n)
       \/ cand \in DocVariants
    /\ doc = cand
    /\ stage = "parsed"
    /\ once = None
    /\ IdleClean /\ IdleCall

\* `if not validate_json_structure(quiz_json): continue`
Validate ==
    /\ stage = "parsed"
    /\ stage' = IF validate_json_structure(doc) THEN "validated" ELSE "rejected"
    /\ UNCHANGED <<cand, doc, once, cleanVars, callVars>>

\* `quiz_json = post_process_quiz_data(quiz_json)`
PostProcess ==
    /\ stage = "validated"
    /\ doc' = post_process_quiz_data(doc)
    /\ once' = doc'
    /\ stage' = "normalized"
    /\ UNCHANGED <<cand, cleanVars, callVars>>

\* post_process_quiz_data on the document it returned
PostProcessAgain ==
    /\ stage = "normalized"
    /\ doc' = post_process_quiz_data(doc)
    /\ stage' = "renormalized"
    /\ UNCHANGED <<cand, once, cleanVars, callVars>>

\* `formatted_json = format_json(result)`: json.dumps reads the document
FormatJson ==
    /\ stage = "normalized"
    /\ stage' = "formatted"
    /\ UNCHANGED <<cand, doc, once, cleanVars, callVars>>

\* `csv_data = convert_to_csv(result)`, after format_json or without it
ConvertToCsv ==
    /\ stage \in {"normalized", "formatted"}
    /\ doc' = convert_to_csv(doc).json_data
    /\ stage' = IF convert_to_csv(doc).raised THEN "export failed" ELSE "exported"
    /\ UNCHANGED <<cand, once, cleanVars, callVars>>

NextDoc == Validate \/ PostProcess \/ PostProcessAgain \/ FormatJson \/ ConvertToCsv

SpecDoc == InitDoc /\ [][NextDoc]_vars

----------------------------------------------------------------------------
(* SpecClean: clean_json_response is called on one text *)

\* JSON texts, written without insignificant whitespace
Atoms == { <<"1">>, <<"\"", "a", "\"">>, <<"n", "u", "l", "l">>,
           <<"\"", Grave, Grave, Grave, "\"">> }
Array1(x) == <<"[">> \o x \o <<"]">>
Array2(x, y) == <<"[">> \o x \o <<",">> \o y \o <<"]">>
Object1(x) == <<"{", "\"", "a", "\"", ":">> \o x \o <<"}">>
Object2(x, y) == <<"{", "\"", "a", "\"", ":">> \o x \o <<",", "\"", "b", "\"", ":">> \o y \o <<"}">>

\* arrays and objects of atoms
Level1 ==
    { <<"[", "]">>, <<"{", "}">> }
    \cup { Array1(x) : x \in Atoms } \cup { Array2(x, y) : x \in Atoms, y \in Atoms }
    \cup { Object1(x) : x \in Atoms } \cup { Object2(x, y) : x \in Atoms, y \in Atoms }

\* arrays and objects that hold an array or an object
Level2 ==
    { Array1(x) : x \in Level1 } \cup { Array2(x, y) : x \in Level1, y \in Atoms }
    \cup { Object1(x) : x \in Level1 } \cup { Object2(x, y) : x \in Level1, y \in Atoms }

Padded(S) == { a \o x \o b : a, b \in { <<>>, <<" ">>, <<"\n">> }, x \in S }

\* a JSON text as a model writes it: in a fence, after a sentence
Fenced(x) == <<Grave, Grave, Grave, "j", "s", "o", "n", "\n">> \o x \o <<"\n", Grave, Grave, Grave>>
Prosed(x) == <<"H", "e", "r", "e", ":", " ">> \o x

CleanerTexts ==
    Padded(Atoms \cup Level1 \cup Level2)
    \cup { Fenced(x) : x \in Level1 } \cup { Prosed(x) : x \in Level1 }
    \cup { <<>>, <<" ">>, <<"n", "o">>, <<"\f">>, <<" ", "\n", "a", " ", " ", "b">> }

InitClean ==
    /\ raw_text \in { Str(x) : x \in CleanerTexts }
    /\ cleaned_text = None
    /\ IdleDoc /\ IdleCall

\* `cleaned_text = clean_json_response(raw_text)`
Clean ==
    /\ cleaned_text = None
    /\ cleaned_text' = Str(clean_json_response(raw_text.v))
    /\ UNCHANGED <<raw_text, docVars, callVars>>

SpecClean == InitClean /\ [][Clean]_vars

----------------------------------------------------------------------------
(* The responses of generate_content *)

\* The JSON text of a value of the quiz schema, without insignificant
\* whitespace, as a model that follows the prompt (lines 155-171) writes it:
\* the keys stand in the order the prompt gives them
RECURSIVE Encode(_)
RECURSIVE EncodeItems(_, _)
RECURSIVE EncodeMembers(_, _, _)
EncodeItems(items, i) ==
    IF i > Len(items) THEN <<>>
    ELSE (IF i > 1 THEN <<",">> ELSE <<>>) \o Encode(items[i]) \o EncodeItems(items, i + 1)
EncodeMembers(d, keys, i) ==
    IF i > Len(keys) THEN <<>>
    ELSE (IF i > 1 THEN <<",">> ELSE <<>>)
            \o <<"\"">> \o keys[i] \o <<"\"", ":">> \o Encode(d[keys[i]])
            \o EncodeMembers(d, keys, i + 1)
Encode(x) ==
    CASE x.t = "none" -> <<"n", "u", "l", "l">>
      [] x.t = "num" -> Decimal(x.v)
      [] x.t = "str" -> <<"\"">> \o escape_latex(x.v) \o <<"\"">>
      [] x.t = "list" -> <<"[">> \o EncodeItems(x.v, 1) \o <<"]">>
      [] x.t = "dict" ->
            <<"{">>
                \o EncodeMembers(x.v,
                       SelectSeq(<< K_subject, K_chapters, K_chapterName, K_quizQuestions,
                                    K_question, K_options, K_correctAnswer, K_explanation >>,
                                 LAMBDA k : k \in DOMAIN x.v), 1)
                \o <<"}">>

OneQuestionDoc(q) == QuizDoc(Text("S"), List(<<Chapter(Text("C"), List(<<q>>))>>))

GoodDoc == OneQuestionDoc(GoodQuestion)
\* two options that differ by case only
DupDoc == OneQuestionDoc(Question(Text("Q"), List(<<Str(<<"A">>), Str(<<"a">>)>>), Str(<<"A">>), Text("E")))
\* a single option
ShortDoc == OneQuestionDoc(Question(Text("Q"), List(<<Str(<<"A">>)>>), Str(<<"A">>), Text("E")))
\* inline math with a backslash
MathDoc ==
    OneQuestionDoc(Question(Text("Q"), List(<<Str(<<"A">>), Str(<<"B">>)>>), Str(<<"A">>),
                            Str(<<"$", "\\", "p", "i", "$">>)))
\* two strings that hold a dollar sign each
DollarDoc ==
    OneQuestionDoc(Question(Str(<<"$">>), List(<<Str(<<"$">>), Str(<<"B">>)>>), Str(<<"$">>), Text("E")))

\* GoodDoc with a key "a" before "subject" and a dollar sign in the value of
\* each of the two: preprocess_latex joins the two members into one string
SplitKeyText ==
    <<"{", "\"", "a", "\"", ":", "\"", "$", "\"", ",">>
        \o <<"\"", "s", "u", "b", "j", "e", "c", "t", "\"", ":", "\"", "S", "$", "\"", ",">>
        \o From(Encode(GoodDoc), 16)

NotJson == <<"n", "o", "t", " ", "j", "s", "o", "n">>

\* response.text, where it is not empty
ResponseTexts ==
    { <<" ">>, NotJson,
      Encode(GoodDoc), <<" ">> \o Encode(GoodDoc) \o <<"\n">>,
      Fenced(Encode(GoodDoc)), Prosed(Encode(GoodDoc)), Array1(Encode(GoodDoc)),
      SubSeq(Encode(GoodDoc), 1, Len(Encode(GoodDoc)) - 2),
      Encode(DupDoc), Encode(ShortDoc), Encode(MathDoc), Encode(DollarDoc), SplitKeyText }

\* str(e) of the exceptions generate_content raises
UpstreamMessages == { "deadline exceeded", "quota exceeded" }

----------------------------------------------------------------------------
(* call_gemini_api *)

MaxRetries == 3

\* The error strings: an f-string is the sequence of its pieces
EmptyInputError == Str(<<"Empty input text provided">>)
MissingKeyError == Str(<<"API key not provided">>)
ConfigureError(e) == Str(<<"Failed to configure Gemini API: ", e>>)
ApiError(n, e) == Str(<<"API Error after ", ToString(n), " attempts: ", e>>)
ExhaustedError(n) == Str(<<"Failed to generate valid quiz after ", ToString(n), " attempts">>)

\* the returned pair
Return(quiz_json, error) == [quiz_json |-> quiz_json, error |-> error]

\* InvalidInput without the test of the stripped text
InvalidInputUnstripped(ti) == Falsy(ti)

\* `not text_input or not text_input.strip()`
InvalidInput(ti) == Falsy(ti) \/ strip(ti.v) = <<>>

\* Backoff with the exponent one less (`2 ** (attempt - 1)`)
BackoffFromZero(a) == IF a > 0 THEN 2 ^ (a - 1) ELSE 0

\* `if attempt > 0: time.sleep(2 ** attempt)`: the time slept, 0 for no sleep
Backoff(a) == IF a > 0 THEN 2 ^ a ELSE 0

\* LastAttempt that compares with max_retries
LastAttemptOffByOne(a, n) == a = n

\* `attempt == max_retries - 1`
LastAttempt(a, n) == a = n - 1

\* InRange that stops one short
InRangeShort(a, n) == a + 1 < n

\* a is a value of `range(max_retries)`
InRange(a, n) == 0 <= a /\ a < n

\* lines 209-218: raw_text, cleaned_text, processed_text and the list of them
json_candidates(response_text) ==
    << preprocess_latex(clean_json_response(strip(response_text))),
       clean_json_response(strip(response_text)),
       strip(response_text) >>

\* The candidate loop, lines 220-243, from candidate i on: whether a
\* candidate was accepted and the document returned for it
RECURSIVE TryCandidates(_, _)
TryCandidates(cs, i) ==
    IF i > Len(cs) THEN [accepted |-> FALSE, quiz_json |-> None]
    ELSE IF cs[i] = <<>> THEN TryCandidates(cs, i + 1)
    ELSE LET parsed == json_loads(cs[i])
         IN  IF parsed.ok /\ validate_json_structure(parsed.val)
             THEN [accepted |-> TRUE, quiz_json |-> post_process_quiz_data(parsed.val)]
             ELSE TryCandidates(cs, i + 1)

\* what the loop body makes of each response text
Recovered == [t \in ResponseTexts |-> TryCandidates(json_candidates(t), 1)]

Init ==
    /\ text_input \in { None, Str(<<>>), Str(<<" ">>), Str(<<"\n", " ">>),
                        Str(<<"x">>), Str(<<" ", "x">>) }
    /\ api_key \in { None, Str(<<>>), Str(<<"k">>) }
    /\ max_retries \in 0..MaxRetries
    /\ pc = "start"
    /\ attempt = 0
    /\ calls = <<>>
    /\ result = Return(None, None)
    /\ IdleDoc /\ IdleClean

\* lines 143-144
CheckInput ==
    /\ pc = "start"
    /\ InvalidInput(text_input)
    /\ pc' = "returned"
    /\ result' = Return(None, EmptyInputError)
    /\ UNCHANGED <<text_input, api_key, max_retries, attempt, calls, docVars, cleanVars>>

\* lines 146-147
CheckKey ==
    /\ pc = "start"
    /\ ~InvalidInput(text_input)
    /\ Falsy(api_key)
    /\ pc' = "returned"
    /\ result' = Return(None, MissingKeyError)
    /\ UNCHANGED <<text_input, api_key, max_retries, attempt, calls, docVars, cleanVars>>

\* lines 149-153, where genai.configure or GenerativeModel raises
ConfigureRaises(e) ==
    /\ pc = "start"
    /\ ~InvalidInput(text_input)
    /\ ~Falsy(api_key)
    /\ pc' = "returned"
    /\ result' = Return(None, ConfigureError(e))
    /\ UNCHANGED <<text_input, api_key, max_retries, attempt, calls, docVars, cleanVars>>

\* lines 149-151 and the entry of the loop of line 188; an empty range
\* leads to line 252
Configure ==
    /\ pc = "start"
    /\ ~InvalidInput(text_input)
    /\ ~Falsy(api_key)
    /\ IF InRange(0, max_retries)
       THEN pc' = "attempt" /\ UNCHANGED result
       ELSE pc' = "returned" /\ result' = Return(None, ExhaustedError(max_retries))
    /\ UNCHANGED <<text_input, api_key, max_retries, attempt, calls, docVars, cleanVars>>

\* the end of a loop body that did not return: the next value of the
\* range, or line 252 after the last one
Proceed ==
    IF InRange(attempt + 1, max_retries)
    THEN attempt' = attempt + 1 /\ UNCHANGED <<pc, result>>
    ELSE /\ pc' = "returned"
         /\ result' = Return(None, ExhaustedError(max_retries))
         /\ UNCHANGED attempt

\* lines 193-202 and 247-250: generate_content raises e
GenerateRaises(e) ==
    /\ pc = "attempt"
    /\ calls' = Append(calls, [slept |-> Backoff(attempt), raised |-> TRUE, text |-> e])
    /\ IF LastAttempt(attempt, max_retries)
       THEN /\ pc' = "returned"
            /\ result' = Return(None, ApiError(max_retries, e))
            /\ UNCHANGED attempt
       ELSE Proceed
    /\ UNCHANGED <<text_input, api_key, max_retries, docVars, cleanVars>>

\* lines 193-206: the response has no text
GenerateEmpty ==
    /\ pc = "attempt"
    /\ calls' = Append(calls, [slept |-> Backoff(attempt), raised |-> FALSE, text |-> <<>>])
    /\ Proceed
    /\ UNCHANGED <<text_input, api_key, max_retries, docVars, cleanVars>>

\* lines 193-245: the response has the text t
GenerateText(t) ==
    /\ pc = "attempt"
    /\ calls' = Append(calls, [slept |-> Backoff(attempt), raised |-> FALSE, text |-> t])
    /\ IF Recovered[t].accepted
       THEN /\ pc' = "returned"
            /\ result' = Return(Recovered[t].quiz_json, None)
            /\ UNCHANGED attempt
       ELSE Proceed
    /\ UNCHANGED <<text_input, api_key, max_retries, docVars, cleanVars>>

Next ==
    \/ CheckInput
    \/ CheckKey
    \/ \E e \in UpstreamMessages : ConfigureRaises(e)
    \/ Configure
    \/ \E e \in UpstreamMessages : GenerateRaises(e)
    \/ GenerateEmpty
    \/ \E t \in ResponseTexts : GenerateText(t)

Spec == Init /\ [][Next]_vars

----------------------------------------------------------------------------
(* Reading a document of the quiz schema *)

ChaptersOf(d) == d.v[K_chapters].v
QuestionsOf(d, c) == ChaptersOf(d)[c].v[K_quizQuestions].v
OptionsAt(d, c, q) == QuestionsOf(d, c)[q].v[K_options].v
AnswerAt(d, c, q) == QuestionsOf(d, c)[q].v[K_correctAnswer]

\* the key the normalizer compares options by
OptionKey(option) == lower(strip(option.v))

\* every option of every question of the (accepted) document d is a str
AllOptionsStr(d) ==
    \A c \in 1..Len(ChaptersOf(d)) : \A q \in 1..Len(QuestionsOf(d, c)) :
        \A i \in 1..Len(OptionsAt(d, c, q)) : IsStr(OptionsAt(d, c, q)[i])

\* d with x as the correctAnswer of every question that states one
WithAnswerQ(question, x) ==
    IF IsDict(question) /\ HasKey(question.v, K_correctAnswer)
    THEN Dict(SetKey(question.v, K_correctAnswer, x))
    ELSE question
WithAnswerC(chapter, x) ==
    IF IsDict(chapter) /\ HasKey(chapter.v, K_quizQuestions)
       /\ IsList(chapter.v[K_quizQuestions])
    THEN Dict(SetKey(chapter.v, K_quizQuestions,
              List([i \in 1..Len(chapter.v[K_quizQuestions].v) |->
                       WithAnswerQ(chapter.v[K_quizQuestions].v[i], x)])))
    ELSE chapter
WithAnswer(d, x) ==
    IF IsDict(d) /\ HasKey(d.v, K_chapters) /\ IsList(d.v[K_chapters])
    THEN Dict(SetKey(d.v, K_chapters,
              List([i \in 1..Len(d.v[K_chapters].v) |-> WithAnswerC(d.v[K_chapters].v[i], x)])))
    ELSE d

----------------------------------------------------------------------------
(* Claims about the normalizer and the validator, under SpecDoc *)

\* C1: in the document the normalizer returns for an accepted candidate
\* whose options are all strings, every question's correctAnswer is equal
\* by value to one of that question's options.
C1_AnswerInOptions ==
    (stage = "normalized" /\ AllOptionsStr(cand)) =>
        \A c \in 1..Len(ChaptersOf(doc)) : \A q \in 1..Len(QuestionsOf(doc, c)) :
            In(AnswerAt(doc, c, q), OptionsAt(doc, c, q))

\* A question whose stated answer was among its options, was dropped by the
\* duplicate removal (an earlier option has the same key) and was put back.
C1_Witness ==
    /\ stage = "normalized" /\ AllOptionsStr(cand)
    /\ \E c \in 1..Len(ChaptersOf(cand)) : \E q \in 1..Len(QuestionsOf(cand, c)) :
          /\ In(AnswerAt(cand, c, q), OptionsAt(cand, c, q))
          /\ ~In(AnswerAt(cand, c, q),
                 UniqueOptions(OptionsAt(cand, c, q), <<>>, {}).unique_options)
          /\ OptionsAt(doc, c, q)[1] = AnswerAt(cand, c, q)

\* C3: in the document the normalizer returns for an accepted candidate, no
\* two options of a question have the same lower-cased, trimmed text (stated
\* for the candidates whose options are all strings, for which the
\* comparison is defined).
C3_OptionsDistinct ==
    (stage = "normalized" /\ AllOptionsStr(cand)) =>
        \A c \in 1..Len(ChaptersOf(doc)) : \A q \in 1..Len(QuestionsOf(doc, c)) :
            \A i, j \in 1..Len(OptionsAt(doc, c, q)) :
                i # j => OptionKey(OptionsAt(doc, c, q)[i]) # OptionKey(OptionsAt(doc, c, q)[j])

\* C4: normalizing the document the normalizer returned for an accepted
\* candidate returns an equal document.
C4_Idempotent == stage = "renormalized" => doc = once

\* The shape C10 says the validator accepts
AcceptedShape(c) ==
    /\ c.t = "dict"
    /\ {K_subject, K_chapters} \subseteq DOMAIN c.v
    /\ c.v[K_chapters].t = "list"
    /\ Len(c.v[K_chapters].v) >= 1
    /\ \A ch \in Range(c.v[K_chapters].v) :
          /\ ch.t = "dict"
          /\ {K_chapterName, K_quizQuestions} \subseteq DOMAIN ch.v
          /\ ch.v[K_quizQuestions].t = "list"
          /\ \A qn \in Range(ch.v[K_quizQuestions].v) :
                /\ qn.t = "dict"
                /\ {K_question, K_options, K_correctAnswer, K_explanation} \subseteq DOMAIN qn.v
                /\ qn.v[K_options].t = "list"
                /\ Len(qn.v[K_options].v) >= 2

\* C10: the validator accepts exactly the candidates of the shape above, its
\* verdict is the same whatever the questions' correctAnswer is, and it
\* leaves the candidate as it was.
C10_ValidatorExact ==
    stage \in {"validated", "rejected"} =>
        /\ (stage = "validated") <=> AcceptedShape(cand)
        /\ \A x \in OptionVals \cup {Str(<<"Z">>)} :
              validate_json_structure(WithAnswer(cand, x)) <=> (stage = "validated")
        /\ doc = cand

\* A document that is complete but for a question with a single option is rejected.
C10_Witness ==
    /\ stage = "rejected"
    /\ cand = QuizDoc(Text("S"), List(<<Chapter(Text("C"),
                 List(<<Question(Text("Q"), List(<<Str(<<"A">>)>>), Str(<<"A">>), Text("E"))>>))>>))

\* C2: every question of the document the normalizer returns for an accepted
\* candidate has at least 2 options.
C2_AtLeastTwoOptions ==
    stage = "normalized" =>
        \A c \in 1..Len(ChaptersOf(doc)) : \A q \in 1..Len(QuestionsOf(doc, c)) :
            Len(OptionsAt(doc, c, q)) >= 2

----------------------------------------------------------------------------
(* Claims about the cleaner, under SpecClean *)

\* t is the JSON text of an object or of an array
PureJson(t) == json_loads(t).ok /\ json_loads(t).val.t \in {"dict", "list"}

\* C9: for a text that is the JSON text of an object or of an array, the
\* cleaner returns the text without its surrounding whitespace.
C9_PureJsonUnchanged ==
    (cleaned_text # None /\ PureJson(raw_text.v)) => cleaned_text.v = strip(raw_text.v)

----------------------------------------------------------------------------
(* Claims about the retry loop, under Spec *)

\* a candidate of the response text t parses and validates
ParsesAndValidates(t) ==
    \E i \in 1..3 :
        /\ json_candidates(t)[i] # <<>>
        /\ json_loads(json_candidates(t)[i]).ok
        /\ validate_json_structure(json_loads(json_candidates(t)[i]).val)

AcceptedTexts == { t \in ResponseTexts : ParsesAndValidates(t) }

\* the k-th call of generate_content returned a text with an accepted candidate
CallAccepted(k) == ~calls[k].raised /\ calls[k].text \in AcceptedTexts

\* the k-th call returned (an empty text included) and nothing was accepted
Malformed(k) == ~calls[k].raised /\ ~CallAccepted(k)

\* text_input is missing, empty or made of whitespace
BlankInput == text_input = None \/ \A i \in 1..Len(text_input.v) : text_input.v[i] \in Whitespace

\* api_key is missing or empty
NoCredentials == api_key = None \/ api_key.v = <<>>

\* the call went past the checks of lines 143-153
Configured ==
    /\ ~BlankInput /\ ~NoCredentials
    /\ result.error \notin { ConfigureError(e) : e \in UpstreamMessages }

RECURSIVE SleptUpTo(_)
SleptUpTo(k) == IF k = 0 THEN 0 ELSE SleptUpTo(k - 1) + calls[k].slept

\* C5 as stated: with valid input and credentials and max_retries >= 1,
\* generate_content is called once per attempt; when a call is accepted it is
\* the last one and the result is a document; when none is, the result is the
\* exhaustion error after max_retries calls.
C5_StopsAtFirstAccepted ==
    (pc = "returned" /\ Configured /\ max_retries >= 1) =>
        /\ Len(calls) = attempt + 1
        /\ IF \E k \in 1..Len(calls) : CallAccepted(k)
           THEN /\ \A k \in 1..Len(calls) : CallAccepted(k) <=> k = Len(calls)
                /\ result.error = None /\ result.quiz_json # None
           ELSE /\ Len(calls) = max_retries
                /\ result = Return(None, ExhaustedError(max_retries))

\* C5 amended: as above, but when no call is accepted the error is the
\* exhaustion error only if the last call returned, and the API error with its
\* message if the last call raised; and while the loop runs there was one call
\* per attempt so far, none of them accepted.
C5_StopsAtFirstAcceptedOrRaises ==
    /\ (pc = "attempt" /\ max_retries >= 1) =>
          /\ Len(calls) = attempt /\ attempt < max_retries
          /\ \A k \in 1..Len(calls) : ~CallAccepted(k)
    /\ (pc = "returned" /\ Configured /\ max_retries >= 1) =>
          /\ Len(calls) = attempt + 1
          /\ IF \E k \in 1..Len(calls) : CallAccepted(k)
             THEN /\ \A k \in 1..Len(calls) : CallAccepted(k) <=> k = Len(calls)
                  /\ result.error = None /\ result.quiz_json # None
             ELSE /\ Len(calls) = max_retries
                  /\ result.quiz_json = None
                  /\ result.error =
                        IF calls[max_retries].raised
                        THEN ApiError(max_retries, calls[max_retries].text)
                        ELSE ExhaustedError(max_retries)

\* The second of three attempts is the first accepted one
C5_Witness ==
    /\ pc = "returned" /\ Configured /\ max_retries = 3
    /\ Len(calls) = 2 /\ Malformed(1) /\ calls[1].text = NotJson /\ CallAccepted(2)
    /\ result.error = None

\* malformed text on attempts 1 and 2, an accepted text on attempt 3 of 3
C6_Scenario ==
    /\ pc = "returned" /\ max_retries = 3 /\ Len(calls) = 3
    /\ Malformed(1) /\ Malformed(2) /\ CallAccepted(3)

\* C6 as stated: in that scenario nothing is slept before the first call and
\* the time slept in all is 2^0 + 2^1 = 3.
C6_TotalThree == C6_Scenario => (calls[1].slept = 0 /\ SleptUpTo(3) = 2 ^ 0 + 2 ^ 1)

\* C6 amended: nothing is slept before the first call, 2^(n-1) before the
\* n-th call for n > 1, and in that scenario the time slept in all is
\* 2^1 + 2^2 = 6.
C6_TotalSix ==
    /\ \A n \in 1..Len(calls) : calls[n].slept = IF n = 1 THEN 0 ELSE 2 ^ (n - 1)
    /\ C6_Scenario => (calls[1].slept = 0 /\ SleptUpTo(3) = 2 ^ 1 + 2 ^ 2)

C6_Witness == C6_Scenario /\ calls[1].text = NotJson /\ calls[2].text = NotJson

\* C7: with a blank text_input or without credentials the call returns at
\* once with no document: generate_content is never called and nothing is
\* slept; the error for the input, the error for the credentials and the
\* exhaustion error are pairwise distinct.
C7_FailsFast ==
    /\ (BlankInput \/ NoCredentials) =>
          /\ pc \in {"start", "returned"}
          /\ calls = <<>>
          /\ pc = "returned" =>
                /\ result.quiz_json = None
                /\ result.error = IF BlankInput THEN EmptyInputError ELSE MissingKeyError
    /\ EmptyInputError # MissingKeyError
    /\ ExhaustedError(max_retries) \notin {EmptyInputError, MissingKeyError}

\* A text_input of whitespace is turned down although the key is there
C7_Witness ==
    /\ pc = "returned" /\ text_input = Str(<<"\n", " ">>) /\ ~NoCredentials
    /\ result = Return(None, EmptyInputError)

\* C8: an exception of generate_content in an attempt that is not the last
\* leads to the next attempt; one in the last attempt returns the API error
\* with the exception's message; when the last call did not raise, the
\* result is a document or the exhaustion error.
C8_TransportErrors ==
    /\ \A k \in 1..Len(calls) :
          (calls[k].raised /\ k < max_retries /\ Len(calls) = k) =>
              (pc = "attempt" /\ attempt = k)
    /\ (pc = "returned" /\ Len(calls) >= 1 /\ calls[Len(calls)].raised) =>
          /\ Len(calls) = max_retries
          /\ result = Return(None, ApiError(max_retries, calls[max_retries].text))
    /\ (pc = "returned" /\ Len(calls) >= 1 /\ ~calls[Len(calls)].raised) =>
          \/ result.error = None /\ result.quiz_json # None
          \/ result = Return(None, ExhaustedError(max_retries))

\* Success in the attempt after one that raised
C8_Witness ==
    /\ pc = "returned" /\ Len(calls) = 2 /\ calls[1].raised /\ CallAccepted(2)
    /\ result.error = None /\ result.quiz_json # None

\* the candidate c parses and passes the validator
CandidateOk(c) ==
    c # <<>> /\ json_loads(c).ok /\ validate_json_structure(json_loads(c).val)

\* The document C11 says a response text t yields: the normalization of the
\* first of cleaned text, raw text that parses and validates; None for neither
CleanedThenRaw(t) ==
    IF CandidateOk(clean_json_response(strip(t)))
    THEN post_process_quiz_data(json_loads(clean_json_response(strip(t))).val)
    ELSE IF CandidateOk(strip(t))
         THEN post_process_quiz_data(json_loads(strip(t)).val)
         ELSE None

ClaimedDocument == [t \in ResponseTexts |-> CleanedThenRaw(t)]

\* C11: a call of generate_content that returns a text ends the loop with
\* the normalization of the first of cleaned text, raw text that parses and
\* validates, in that same attempt; when neither does, the attempt returns no
\* document.
C11_CleanedThenRaw ==
    \A k \in 1..Len(calls) :
        (~calls[k].raised /\ calls[k].text # <<>>) =>
            IF ClaimedDocument[calls[k].text] # None
            THEN /\ pc = "returned" /\ Len(calls) = k
                 /\ result = Return(ClaimedDocument[calls[k].text], None)
            ELSE ~(pc = "returned" /\ Len(calls) = k /\ result.error = None)

----------------------------------------------------------------------------
(* Claims about the operations after the normalizer, under SpecDoc *)

\* C12: after format_json and after convert_to_csv, whether it returned or
\* raised, the document is equal to the one the normalizer returned.
C12_OnlyNormalizerChanges ==
    stage \in {"formatted", "exported", "export failed"} => doc = once

====
